---- MODULE Spec2Model ----
(***************************************************************************)
(* A model of the dense, fixed-rank tensor of utec::algebra.               *)
(*                                                                         *)
(* The repository holds three variants of the class template Tensor:       *)
(*   "Tensor.h"    src/include/utec/algebra/Tensor.h (the header the tests *)
(*                 include): strict reshape, unchecked element access,     *)
(*                 + and - on equal shapes only, broadcasting *.           *)
(*   "part_000"    src/unnamed/part_000: grow-on-reshape, unchecked        *)
(*                 element access, broadcasting + - *, transpose_2d and    *)
(*                 matrix_product as free functions.                       *)
(*   "CMakeLists"  the class that follows the build rules in               *)
(*                 src/CMakeLists.txt: strict reshape, bounds-checked      *)
(*                 element access, + - * on equal shapes only.             *)
(*                                                                         *)
(* A tensor is a record [shape, data]: shape is the sequence of axis sizes *)
(* (axis a of the code is shape[a+1]), data the flat row-major buffer      *)
(* (flat offset k of the code is data[k+1]).  An operation yields an       *)
(* outcome [err, shape, data, ret]: err is "none" or the kind of the       *)
(* exception thrown, shape/data the tensor afterwards, ret the value read. *)
(***************************************************************************)
EXTENDS Integers, Sequences, FiniteSets, TLC

VARIABLES variant, rank, shape, data, prev, last, opA, opB, res

vars == <<variant, rank, shape, data, prev, last, opA, opB, res>>

(***************************************************************************)
(* Bounds of the model.                                                    *)
(***************************************************************************)
\* largest axis size (and largest index) the inputs take
MaxDim == 3
\* largest element count of a tensor built by the inputs
MaxElems == 6

\* element values written by fill, element writes and list assignment
Values == {0, 1}

Variants == {"Tensor.h", "part_000", "CMakeLists"}

\* the instantiations of the template parameter Rank the lifecycle runs on
Ranks == {1, 2}

(***************************************************************************)
(* Shape and index utilities.                                              *)
(***************************************************************************)
RECURSIVE Product(_)
Product(s) == IF s = <<>> THEN 1 ELSE Head(s) * Product(Tail(s))

\* std::vector<T>::resize(n) / resize(n, T{}): keeps the first elements,
\* value-initialises (0) the new ones
Resize(d, n) == [k \in 1..n |-> IF k <= Len(d) THEN d[k] ELSE 0]

\* an offset computed without advancing the stride
compute_index_unit_stride(indices, shp) ==
    LET RECURSIVE loop(_, _)
        loop(i, idx) == IF i = 0 THEN idx ELSE loop(i - 1, idx + indices[i])
    IN  loop(Len(shp), 0)

\* row-major offset: for (i = Rank; i-- > 0;) { idx += indices[i]*stride; stride *= shape[i]; }
compute_index(indices, shp) ==
    LET RECURSIVE loop(_, _, _)
        loop(i, idx, stride) ==
            IF i = 0 THEN idx
            ELSE loop(i - 1, idx + indices[i] * stride, stride * shp[i])
    IN  loop(Len(shp), 0, 1)

\* for (d = N-1; d >= 0; --d) { idx[d] = temp % shape[d]; temp /= shape[d]; }
Unflatten(flat, shp) ==
    LET RECURSIVE loop(_, _, _)
        loop(d, temp, idx) ==
            IF d = 0 THEN idx
            ELSE loop(d - 1, temp \div shp[d], [idx EXCEPT ![d] = temp % shp[d]])
    IN  loop(Len(shp), flat, [d \in 1..Len(shp) |-> 0])

InRange(indices, shp) == \A a \in 1..Len(shp) : indices[a] < shp[a]

RECURSIVE Largest(_)
Largest(s) == IF s = <<>> THEN 0
              ELSE IF Head(s) > Largest(Tail(s)) THEN Head(s) ELSE Largest(Tail(s))

\* every index tuple within a shape
IndicesOf(shp) == {i \in [1..Len(shp) -> 0..Largest(shp)] : InRange(i, shp)}

Ok(shp, d) == [err |-> "none", shape |-> shp, data |-> d, ret |-> 0]
Thrown(kind, t) == [err |-> kind, shape |-> t.shape, data |-> t.data, ret |-> 0]

NoTensor == [shape |-> <<>>, data |-> <<>>]

(***************************************************************************)
(* Construction.                                                           *)
(***************************************************************************)
\* Tensor(const std::array<size_t, Rank>&): the buffer is resized to the
\* product of the dimensions, value-initialised
Tensor_shape(shp) == Ok(shp, Resize(<<>>, Product(shp)))

\* Tensor(Dims... dims): part_000 checks the argument count at run time, the
\* other two variants at compile time (static_assert)
Tensor_dims(v, N, dims) ==
    IF v = "part_000" /\ Len(dims) # N
    THEN [err |-> "ConstructionError", shape |-> <<>>, data |-> <<>>, ret |-> 0]
    ELSE Ok(dims, Resize(<<>>, Product(dims)))

\* Tensor() of part_000: dimensions_.fill(1); data_.resize(1)
Tensor_default(N) == Ok([a \in 1..N |-> 1], Resize(<<>>, 1))

(***************************************************************************)
(* Mutation.                                                               *)
(***************************************************************************)
\* fill: std::fill over the buffer
fill(t, value) == Ok(t.shape, [k \in 1..Len(t.data) |-> value])

\* a list assignment that copies what fits instead of comparing the sizes
assign_list_unchecked(t, list) ==
    Ok(t.shape, [k \in 1..Len(t.data) |-> IF k <= Len(list) THEN list[k] ELSE t.data[k]])

\* operator=(std::initializer_list<T>) of part_000 and CMakeLists
assign_list(t, list) ==
    IF Len(list) # Len(t.data) THEN Thrown("SizeMismatch", t)
    ELSE Ok(t.shape, [k \in 1..Len(t.data) |-> list[k]])

\* a reshape that allocates a fresh buffer instead of keeping the old one
reshape_strict_realloc(t, new_shape) ==
    IF Product(new_shape) # Len(t.data) THEN Thrown("ShapeMismatch", t)
    ELSE Ok(new_shape, Resize(<<>>, Product(new_shape)))

\* reshape(const std::array<size_t, Rank>&) of Tensor.h and CMakeLists
reshape_strict(t, new_shape) ==
    IF Product(new_shape) # Len(t.data) THEN Thrown("ShapeMismatch", t)
    ELSE Ok(new_shape, t.data)

\* a reshape that grows the buffer but never shrinks it
reshape_grow_only(N, t, new_dims) ==
    IF Len(new_dims) # N THEN Thrown("ArityError", t)
    ELSE LET new_total == Product(new_dims)
         IN  Ok(new_dims, IF new_total > Len(t.data) THEN Resize(t.data, new_total)
                          ELSE t.data)

\* a reshape whose new elements keep whatever the old buffer ended with
reshape_grow_stale(N, t, new_dims) ==
    IF Len(new_dims) # N THEN Thrown("ArityError", t)
    ELSE LET new_total == Product(new_dims)
         IN  Ok(new_dims, [k \in 1..new_total |->
                 IF k <= Len(t.data) THEN t.data[k]
                 ELSE IF Len(t.data) > 0 THEN t.data[Len(t.data)] ELSE 0])

\* reshape(Dims... new_dims) of part_000
reshape_grow(N, t, new_dims) ==
    IF Len(new_dims) # N THEN Thrown("ArityError", t)
    ELSE LET new_total == Product(new_dims)
             grown == IF new_total > Len(t.data) THEN Resize(t.data, new_total)
                      ELSE t.data
         IN  Ok(new_dims, Resize(grown, new_total))

reshape(v, N, t, new_dims) ==
    IF v = "part_000" THEN reshape_grow(N, t, new_dims)
    ELSE reshape_strict(t, new_dims)

\* t.reshape(new_dims) followed by t.reshape(the shape t had): an exception
\* of the first call ends the sequence
reshape_and_back(v, N, t, new_dims) ==
    LET first == reshape(v, N, t, new_dims) IN
    IF first.err # "none" THEN first
    ELSE reshape(v, N, [shape |-> first.shape, data |-> first.data], t.shape)

(***************************************************************************)
(* Element access.  The outcomes of an access form a set: an offset past   *)
(* the buffer is undefined behaviour (std::vector::operator[] out of       *)
(* range), modelled as a choice between the access going unnoticed (a      *)
(* stray read of any value, a stray write outside the tensor) and the      *)
(* process being killed ("Crash").                                         *)
(***************************************************************************)
\* operator() of Tensor.h and part_000: no validation of the indices
access_unchecked(t, indices, write, value) ==
    LET off == compute_index(indices, t.shape) IN
    IF off < Len(t.data)
    THEN {IF write
          THEN [Ok(t.shape, [t.data EXCEPT ![off + 1] = value]) EXCEPT !.ret = value]
          ELSE [Ok(t.shape, t.data) EXCEPT !.ret = t.data[off + 1]]}
    ELSE {Thrown("Crash", t)} \cup
         {[Ok(t.shape, t.data) EXCEPT !.ret = r] : r \in (IF write THEN {value} ELSE Values)}

\* operator() of CMakeLists: if (idx[i] >= shape_[i]) throw std::out_of_range
access_checked(t, indices, write, value) ==
    IF ~InRange(indices, t.shape) THEN {Thrown("IndexError", t)}
    ELSE LET off == compute_index(indices, t.shape) IN
         {IF write
          THEN [Ok(t.shape, [t.data EXCEPT ![off + 1] = value]) EXCEPT !.ret = value]
          ELSE [Ok(t.shape, t.data) EXCEPT !.ret = t.data[off + 1]]}

access(v, t, indices, write, value) ==
    IF v = "CMakeLists" THEN access_checked(t, indices, write, value)
    ELSE access_unchecked(t, indices, write, value)

(***************************************************************************)
(* Inputs.                                                                 *)
(***************************************************************************)
\* dimension lists of n entries whose tensor stays within MaxElems
DimLists(n) == {d \in [1..n -> 0..MaxDim] : Product(d) <= MaxElems}

\* dimension lists with too few entries (part_000 accepts them at compile time)
ShortDimLists(n) == UNION {[1..m -> 0..MaxDim] : m \in 0..(n - 1)}

IndexTuples(n) == [1..n -> 0..MaxDim]

\* literal lists: alternating values, of every length up to one past MaxElems
Lists == {[k \in 1..n |-> (k + c) % 2] : n \in 0..(MaxElems + 1), c \in Values}

(***************************************************************************)
(* The lifecycle of one tensor.                                            *)
(***************************************************************************)
Cur == [shape |-> shape, data |-> data]

Done(op, arg, val, o) ==
    /\ prev' = Cur
    /\ shape' = o.shape
    /\ data' = o.data
    /\ last' = [op |-> op, err |-> o.err, arg |-> arg, val |-> val, ret |-> o.ret]
    /\ UNCHANGED <<variant, rank, opA, opB, res>>

Running == last.err # "Crash"

Init ==
    /\ variant \in Variants
    /\ rank \in Ranks
    /\ \E dims \in DimLists(rank) :
          /\ shape = Tensor_shape(dims).shape
          /\ data = Tensor_shape(dims).data
          /\ last = [op |-> "construct", err |-> "none", arg |-> dims, val |-> 0, ret |-> 0]
    /\ prev = NoTensor
    /\ opA = NoTensor
    /\ opB = NoTensor
    /\ res = Ok(<<>>, <<>>)

\* t = Tensor(d0, ..., dn): a throwing constructor leaves t as it was
ConstructDims ==
    /\ Running
    /\ \E dims \in DimLists(rank) \cup (IF variant = "part_000" THEN ShortDimLists(rank) ELSE {}) :
          LET o == Tensor_dims(variant, rank, dims) IN
          Done("construct", dims, 0, IF o.err = "none" THEN o ELSE Thrown(o.err, Cur))

\* t = Tensor(shape)
ConstructShape ==
    /\ Running
    /\ \E dims \in DimLists(rank) : Done("construct", dims, 0, Tensor_shape(dims))

\* t = Tensor()
ConstructDefault ==
    /\ Running
    /\ variant = "part_000"
    /\ Done("construct", <<>>, 0, Tensor_default(rank))

DoFill ==
    /\ Running
    /\ \E v \in Values : Done("fill", <<>>, v, fill(Cur, v))

DoAssign ==
    /\ Running
    /\ variant # "Tensor.h"
    /\ \E l \in Lists : Done("assign", l, 0, assign_list(Cur, l))

DoReshape ==
    /\ Running
    /\ \E dims \in DimLists(rank) \cup (IF variant = "part_000" THEN ShortDimLists(rank) ELSE {}) :
          Done("reshape", dims, 0, reshape(variant, rank, Cur, dims))

DoReshapeAndBack ==
    /\ Running
    /\ \E dims \in DimLists(rank) :
          Done("reshape_back", dims, 0, reshape_and_back(variant, rank, Cur, dims))

DoWrite ==
    /\ Running
    /\ \E i \in IndexTuples(rank), v \in Values :
          \E o \in access(variant, Cur, i, TRUE, v) : Done("write", i, v, o)

DoRead ==
    /\ Running
    /\ \E i \in IndexTuples(rank) :
          \E o \in access(variant, Cur, i, FALSE, 0) : Done("read", i, 0, o)

Next ==
    \/ ConstructDims
    \/ ConstructShape
    \/ ConstructDefault
    \/ DoFill
    \/ DoAssign
    \/ DoReshape
    \/ DoReshapeAndBack
    \/ DoWrite
    \/ DoRead

Spec == Init /\ [][Next]_vars

(***************************************************************************)
(* Elementwise binary arithmetic.                                          *)
(***************************************************************************)
\* largest element count of the operands the arithmetic inputs enumerate
ArithMaxElems == 4

\* the binary operator over T
Apply(op, x, y) ==
    CASE op = "add" -> x + y
      [] op = "sub" -> x - y
      [] op = "mul" -> x * y

\* can_broadcast of part_000
can_broadcast(a, b) ==
    \A i \in 1..Len(a) : ~(a[i] # b[i] /\ a[i] # 1 /\ b[i] # 1)

\* broadcast_index of part_000
broadcast_index(i, dim_size) == IF dim_size = 1 THEN 0 ELSE i

\* operator+ and operator- of Tensor.h, operator+ - * of CMakeLists: equal
\* shapes only, elementwise over the flat buffers
elementwise_same_shape(op, A, B) ==
    IF A.shape # B.shape THEN Thrown("ShapeMismatch", NoTensor)
    ELSE Ok(A.shape, [k \in 1..Len(A.data) |-> Apply(op, A.data[k], B.data[k])])

\* operator*(const Tensor&) of Tensor.h: the result shape is fixed axis by
\* axis, then every flat position of the result is unflattened and mapped
\* into both operands
multiply_broadcast(op, A, B) ==
    LET N == Len(A.shape)
        compatible == \A i \in 1..N :
            A.shape[i] = B.shape[i] \/ A.shape[i] = 1 \/ B.shape[i] = 1
        result_shape == [i \in 1..N |->
            IF A.shape[i] = B.shape[i] THEN A.shape[i]
            ELSE IF A.shape[i] = 1 THEN B.shape[i]
            ELSE A.shape[i]]
        elem(flat) ==
            LET idx == Unflatten(flat, result_shape)
                idx_a == [i \in 1..N |-> IF A.shape[i] = 1 THEN 0 ELSE idx[i]]
                idx_b == [i \in 1..N |-> IF B.shape[i] = 1 THEN 0 ELSE idx[i]]
            IN  Apply(op, A.data[compute_index(idx_a, A.shape) + 1],
                          B.data[compute_index(idx_b, B.shape) + 1])
    IN  IF ~compatible THEN Thrown("ShapeMismatch", NoTensor)
        ELSE Ok(result_shape, [k \in 1..Product(result_shape) |-> elem(k - 1)])

\* operator+ - * of part_000: the result is built with the shape of the left
\* operand and the loop runs over the left operand's elements
elementwise_lhs_shape(op, A, B) ==
    LET N == Len(A.shape)
        elem(i) ==
            LET indices == Unflatten(i, A.shape)
                other_indices == [d \in 1..N |-> broadcast_index(indices[d], B.shape[d])]
            IN  Apply(op, A.data[i + 1], B.data[compute_index(other_indices, B.shape) + 1])
    IN  IF ~can_broadcast(A.shape, B.shape) THEN Thrown("ShapeMismatch", NoTensor)
        ELSE Ok(A.shape, [k \in 1..Len(A.data) |-> elem(k - 1)])

\* A op B in each variant
binary(v, op, A, B) ==
    IF v = "part_000" THEN elementwise_lhs_shape(op, A, B)
    ELSE IF v = "Tensor.h" /\ op = "mul" THEN multiply_broadcast(op, A, B)
    ELSE elementwise_same_shape(op, A, B)

AsTensor(o) == [shape |-> o.shape, data |-> o.data]

\* (A + B) - B: the exception of the sum, if any, ends the expression
add_then_subtract(v, A, B) ==
    LET sum == binary(v, "add", A, B) IN
    IF sum.err # "none" THEN sum ELSE binary(v, "sub", AsTensor(sum), B)

\* operands: every rank-2 tensor with axes of 1..MaxDim and at most
\* ArithMaxElems elements, and the [2,3] operands of the broadcasting example
TensorsOf(shp) == {[shape |-> shp, data |-> d] : d \in [1..Product(shp) -> Values]}

ArithShapes == {s \in [1..2 -> 1..MaxDim] : Product(s) <= ArithMaxElems}

ArithOperands ==
    UNION {TensorsOf(s) : s \in ArithShapes}
        \cup {[shape |-> <<2, 3>>, data |-> <<1, 1, 1, 1, 1, 1>>],
              [shape |-> <<2, 3>>, data |-> <<0, 1, 0, 1, 1, 0>>]}

InitArith ==
    /\ variant \in Variants
    /\ rank = 2
    /\ opA \in ArithOperands
    /\ opB \in ArithOperands
    /\ res = Ok(<<>>, <<>>)
    /\ last = [op |-> "operands", err |-> "none", arg |-> <<>>, val |-> 0, ret |-> 0]
    /\ shape = <<>>
    /\ data = <<>>
    /\ prev = NoTensor

Computed(op, o) ==
    /\ res' = o
    /\ last' = [op |-> op, err |-> o.err, arg |-> <<>>, val |-> 0, ret |-> 0]
    /\ UNCHANGED <<variant, rank, shape, data, prev, opA, opB>>

DoAdd == \E o \in {binary(variant, "add", opA, opB)} : Computed("add", o)

DoSubtract == \E o \in {binary(variant, "sub", opA, opB)} : Computed("sub", o)

DoMultiply == \E o \in {binary(variant, "mul", opA, opB)} : Computed("mul", o)

DoAddThenSubtract == \E o \in {add_then_subtract(variant, opA, opB)} : Computed("addsub", o)

NextArith ==
    \/ DoAdd
    \/ DoSubtract
    \/ DoMultiply
    \/ DoAddThenSubtract

SpecArith == InitArith /\ [][NextArith]_vars

(***************************************************************************)
(* Batched matrix product (part_000).                                      *)
(***************************************************************************)
\* largest axis size of the operands the matrix product inputs enumerate
MatMaxDim == 2
\* largest element count of those operands
MatMaxElems == 4

\* the instantiations of the template parameter N the matrix product runs on
MatRanks == {1, 2, 3, 4, 5}

\* the checks of matrix_product with the batch axes compared first
matrix_product_check_batch_first(a_shape, b_shape) ==
    LET N == Len(a_shape) IN
    IF N < 2 THEN "Incompatible"
    ELSE IF \E i \in 1..(N - 2) : a_shape[i] # b_shape[i] THEN "BatchMismatch"
    ELSE IF a_shape[N] # b_shape[N - 1] THEN "Incompatible"
    ELSE "none"

\* the checks of matrix_product, in the order of the code: N < 2 and the
\* inner dimensions throw the same message ("Matrix dimensions are
\* incompatible for multiplication"), the batch axes another
matrix_product_check(a_shape, b_shape) ==
    LET N == Len(a_shape) IN
    IF N < 2 THEN "Incompatible"
    ELSE IF a_shape[N] # b_shape[N - 1] THEN "Incompatible"
    ELSE IF \E i \in 1..(N - 2) : a_shape[i] # b_shape[i] THEN "BatchMismatch"
    ELSE "none"

\* sum = 0; for (k = 0; k < a_shape[N-1]; ++k) sum += A(a_idx) * B(b_idx);
\* the accumulation is compiled for N = 2, 3, 4 only (if constexpr)
dot(A, B, idx) ==
    LET N == Len(A.shape)
        RECURSIVE loop(_, _)
        loop(k, sum) ==
            IF k = A.shape[N] THEN sum
            ELSE LET a_idx == [idx EXCEPT ![N] = k]
                     b_idx == [idx EXCEPT ![N - 1] = k]
                 IN  loop(k + 1,
                          IF N \in {2, 3, 4}
                          THEN sum + A.data[compute_index(a_idx, A.shape) + 1]
                                   * B.data[compute_index(b_idx, B.shape) + 1]
                          ELSE sum)
    IN  loop(0, 0)

\* matrix_product: the result tensor is built with result_shape for N = 2, 3,
\* 4 and stays the default tensor (all axes 1, one element) otherwise; the
\* loop over the flat positions of result_shape stores each sum through
\* result(idx...) for N = 2, 3, 4 and stores nothing otherwise
matrix_product(A, B) ==
    LET N == Len(A.shape)
        check == matrix_product_check(A.shape, B.shape)
        result_shape == [A.shape EXCEPT ![N] = B.shape[N]]
        built == IF N \in {2, 3, 4} THEN Tensor_dims("part_000", N, result_shape)
                 ELSE Tensor_default(N)
        RECURSIVE loop(_, _)
        loop(i, d) ==
            IF i = Product(result_shape) THEN d
            ELSE LET idx == Unflatten(i, result_shape) IN
                 loop(i + 1,
                      IF N \in {2, 3, 4}
                      THEN [d EXCEPT ![compute_index(idx, built.shape) + 1] = dot(A, B, idx)]
                      ELSE d)
    IN  IF check # "none" THEN Thrown(check, NoTensor)
        ELSE Ok(built.shape, loop(0, built.data))

\* operands: tensors of one rank with axes of 1..MatMaxDim and at most
\* MatMaxElems elements
MatShapes(N) == {s \in [1..N -> 1..MatMaxDim] : Product(s) <= MatMaxElems}

MatOperands(N) == UNION {TensorsOf(s) : s \in MatShapes(N)}

\* A = [[1,2,3],[4,5,6]] and B = a [3,4] tensor of ones
ExampleA == [shape |-> <<2, 3>>, data |-> <<1, 2, 3, 4, 5, 6>>]

ExampleB == [shape |-> <<3, 4>>, data |-> [k \in 1..12 |-> 1]]

InitMatmul ==
    /\ variant = "part_000"
    /\ \/ /\ rank \in MatRanks
          /\ opA \in MatOperands(rank)
          /\ opB \in MatOperands(rank)
       \/ /\ rank = 2
          /\ opA = ExampleA
          /\ opB = ExampleB
    /\ res = Ok(<<>>, <<>>)
    /\ last = [op |-> "operands", err |-> "none", arg |-> <<>>, val |-> 0, ret |-> 0]
    /\ shape = <<>>
    /\ data = <<>>
    /\ prev = NoTensor

DoMatrixProduct == \E o \in {matrix_product(opA, opB)} : Computed("matmul", o)

NextMatmul == DoMatrixProduct

SpecMatmul == InitMatmul /\ [][NextMatmul]_vars

(***************************************************************************)
(* Transposition of the last two axes.                                     *)
(***************************************************************************)
\* result(idx...) = value through the unchecked operator()
store(d, shp, idx, value) == [d EXCEPT ![compute_index(idx, shp) + 1] = value]

\* the last two entries of a sequence exchanged (std::swap)
swap_last_two(s) ==
    LET N == Len(s) IN
    [a \in 1..N |-> IF a = N THEN s[N - 1] ELSE IF a = N - 1 THEN s[N] ELSE s[a]]

\* a transposition that stores each element at the index it was read from
transpose_2d_member_unswapped(A) ==
    LET rows == A.shape[1]
        cols == A.shape[2]
        result == Tensor_shape(<<cols, rows>>)
        RECURSIVE loop(_, _)
        loop(n, d) ==
            IF n = rows * cols THEN d
            ELSE LET i == n \div cols
                     j == n % cols
                 IN  loop(n + 1, store(d, result.shape, <<i, j>>,
                                       A.data[compute_index(<<i, j>>, A.shape) + 1]))
    IN  Ok(result.shape, loop(0, result.data))

\* Tensor::transpose_2d() of Tensor.h (Rank == 2 by static_assert):
\* for i < rows, for j < cols: result(j, i) = (*this)(i, j)
transpose_2d_member(A) ==
    LET rows == A.shape[1]
        cols == A.shape[2]
        result == Tensor_shape(<<cols, rows>>)
        RECURSIVE loop(_, _)
        loop(n, d) ==
            IF n = rows * cols THEN d
            ELSE LET i == n \div cols
                     j == n % cols
                 IN  loop(n + 1, store(d, result.shape, <<j, i>>,
                                       A.data[compute_index(<<i, j>>, A.shape) + 1]))
    IN  Ok(result.shape, loop(0, result.data))

\* transpose_2d of part_000: throws for N < 2; the result tensor is built
\* with the swapped shape for N = 2, 3, 4 and stays the default tensor
\* otherwise; the loop over the flat positions of the input stores
\* result(transposed_idx...) = input(idx...) for N = 2, 3, 4 only
transpose_2d_free(A) ==
    LET N == Len(A.shape)
        new_shape == swap_last_two(A.shape)
        built == IF N \in {2, 3, 4} THEN Tensor_dims("part_000", N, new_shape)
                 ELSE Tensor_default(N)
        RECURSIVE loop(_, _)
        loop(i, d) ==
            IF i = Product(A.shape) THEN d
            ELSE LET idx == Unflatten(i, A.shape)
                     transposed_idx == swap_last_two(idx)
                 IN  loop(i + 1,
                          IF N \in {2, 3, 4}
                          THEN store(d, built.shape, transposed_idx,
                                     A.data[compute_index(idx, A.shape) + 1])
                          ELSE d)
    IN  IF N < 2 THEN Thrown("RankError", NoTensor)
        ELSE Ok(built.shape, loop(0, built.data))

transpose_2d(v, A) ==
    IF v = "part_000" THEN transpose_2d_free(A) ELSE transpose_2d_member(A)

\* transpose_2d(transpose_2d(A)): the exception of the first call, if any,
\* ends the expression
transpose_twice(v, A) ==
    LET once == transpose_2d(v, A) IN
    IF once.err # "none" THEN once ELSE transpose_2d(v, AsTensor(once))

\* Tensor.h compiles transpose_2d for Rank 2 only, part_000 for every N; the
\* CMakeLists variant has none
InitTranspose ==
    /\ variant \in {"Tensor.h", "part_000"}
    /\ rank \in (IF variant = "Tensor.h" THEN {2} ELSE MatRanks)
    /\ opA \in (IF rank = 2 THEN ArithOperands ELSE MatOperands(rank))
    /\ opB = NoTensor
    /\ res = Ok(<<>>, <<>>)
    /\ last = [op |-> "operands", err |-> "none", arg |-> <<>>, val |-> 0, ret |-> 0]
    /\ shape = <<>>
    /\ data = <<>>
    /\ prev = NoTensor

DoTranspose == \E o \in {transpose_2d(variant, opA)} : Computed("transpose", o)

DoTransposeTwice == \E o \in {transpose_twice(variant, opA)} : Computed("transpose2", o)

NextTranspose ==
    \/ DoTranspose
    \/ DoTransposeTwice

SpecTranspose == InitTranspose /\ [][NextTranspose]_vars

(***************************************************************************)
(* Properties of the lifecycle.                                            *)
(***************************************************************************)
Min(a, b) == IF a < b THEN a ELSE b

Positive(shp) == \A a \in 1..Len(shp) : shp[a] >= 1

\* the element operator() reads at an in-range index
ElementAt(t, indices) == t.data[compute_index(indices, t.shape) + 1]

\* C1: after any sequence of constructions, fills, element writes, list
\* assignments and reshapes, failed or not, size() is the product of the
\* entries of shape() and shape() has exactly Rank entries.
C1_SizeIsProductOfShape ==
    /\ Len(data) = Product(shape)
    /\ Len(shape) = rank

\* C1 witness: a reshape of part_000 has shrunk the buffer of a tensor to the
\* product of the new shape
C1_Witness ==
    /\ last.op = "reshape"
    /\ last.err = "none"
    /\ Len(data) < Len(prev.data)
    /\ Len(data) > 0

\* C2: reshape succeeds if and only if the product of the new shape equals
\* the current element count; when the products differ it fails with
\* ShapeMismatch and shape and data are what they were before the call.
\* (Stated for tensors and new shapes whose axes are all at least 1.)
C2_ReshapeSucceedsIffSameCount ==
    (last.op = "reshape" /\ Len(last.arg) = rank
        /\ Positive(prev.shape) /\ Positive(last.arg)) =>
        /\ (last.err = "none") <=> (Product(last.arg) = Len(prev.data))
        /\ Product(last.arg) # Len(prev.data) =>
              (last.err = "ShapeMismatch" /\ Cur = prev)

\* C3: an element access with an index outside [0, shape[axis]) on some axis
\* fails with IndexError and leaves shape and every element unchanged, also
\* when the row-major offset of the index is below size().
\* (Stated for the out-of-range indices whose offset stays inside the buffer,
\* where the behaviour of the code is defined.)
C3_OutOfRangeAccessFails ==
    (last.op \in {"read", "write"} /\ ~InRange(last.arg, prev.shape)
        /\ compute_index(last.arg, prev.shape) < Len(prev.data)) =>
        (last.err = "IndexError" /\ Cur = prev)

C5_EveryAxisAtLeastOne == \A a \in 1..Len(shape) : shape[a] >= 1

(***************************************************************************)
(* Properties of the elementwise arithmetic.                               *)
(***************************************************************************)
Max(a, b) == IF a > b THEN a ELSE b

Compatible(sa, sb) == \A a \in 1..Len(sa) : sa[a] = sb[a] \/ sa[a] = 1 \/ sb[a] = 1

\* the broadcast index mapping of the specification
MapInto(I, shp) == [a \in 1..Len(shp) |-> IF shp[a] = 1 THEN 0 ELSE I[a]]

\* C6: add, subtract and multiply alike succeed exactly when every axis has
\* equal sizes or a size of 1 on either side; otherwise they fail with
\* ShapeMismatch and produce no result.
C6_SucceedsIffBroadcastCompatible ==
    (last.op \in {"add", "sub", "mul"}) =>
        /\ (res.err = "none") <=> Compatible(opA.shape, opB.shape)
        /\ ~Compatible(opA.shape, opB.shape) =>
              (res.err = "ShapeMismatch" /\ AsTensor(res) = NoTensor)

\* C7: a successful add, subtract or multiply of broadcast-compatible A and B
\* has the shape max(sa[a], sb[a]) on every axis and at every index I of it
\* the element A(mapA(I)) op B(mapB(I)), whichever operand carries the size-1
\* axis.
C7_BroadcastResult ==
    (last.op \in {"add", "sub", "mul"} /\ res.err = "none"
        /\ Compatible(opA.shape, opB.shape)) =>
        /\ res.shape = [a \in 1..Len(opA.shape) |-> Max(opA.shape[a], opB.shape[a])]
        /\ Len(res.data) = Product(res.shape)
        /\ \A I \in IndicesOf(res.shape) :
              ElementAt(res, I) =
                  Apply(last.op, ElementAt(opA, MapInto(I, opA.shape)),
                                 ElementAt(opB, MapInto(I, opB.shape)))

\* C8: for any broadcast-compatible A and B, also when A has a size-1 axis
\* where B's is larger, (A add B) subtract B succeeds and equals A in shape
\* and in every element.
C8_AddThenSubtractIsIdentity ==
    (last.op = "addsub" /\ Compatible(opA.shape, opB.shape)) =>
        /\ res.err = "none"
        /\ AsTensor(res) = opA

(***************************************************************************)
(* Properties of the batched matrix product.                               *)
(***************************************************************************)
InnerAgree(a, b) == a[Len(a)] = b[Len(a) - 1]

BatchAgree(a, b) == \A i \in 1..(Len(a) - 2) : a[i] = b[i]

\* sum over k of A(batch..., i, k) * B(batch..., k, j)
Expected(A, B, I) ==
    LET N == Len(A.shape)
        term(k) == ElementAt(A, [I EXCEPT ![N] = k]) * ElementAt(B, [I EXCEPT ![N - 1] = k])
        RECURSIVE SumTo(_)
        SumTo(n) == IF n = 0 THEN 0 ELSE SumTo(n - 1) + term(n - 1)
    IN  SumTo(A.shape[N])

\* C9: for A and B of any rank >= 2 that pass the inner and batch checks,
\* matmul returns a tensor with A's leading axes and last two axes
\* [a[Rank-2], b[Rank-1]], whose element at (batch..., i, j) is the sum over k
\* of A(batch..., i, k) * B(batch..., k, j).
C9_MatmulResult ==
    (last.op = "matmul" /\ rank >= 2
        /\ InnerAgree(opA.shape, opB.shape) /\ BatchAgree(opA.shape, opB.shape)) =>
        /\ res.err = "none"
        /\ res.shape = [opA.shape EXCEPT ![rank] = opB.shape[rank]]
        /\ Len(res.data) = Product(res.shape)
        /\ \A I \in IndicesOf(res.shape) : ElementAt(res, I) = Expected(opA, opB, I)

\* C10: matmul fails on the inner dimensions whenever a[Rank-1] # b[Rank-2],
\* fails on the batch dimensions, a distinct condition, whenever the inner
\* dimensions agree and some leading axis differs (a batch axis of 1 against
\* a larger one included), and succeeds exactly when both checks pass.
C10_MatmulChecks ==
    (last.op = "matmul" /\ rank >= 2) =>
        /\ ~InnerAgree(opA.shape, opB.shape) => res.err = "Incompatible"
        /\ (InnerAgree(opA.shape, opB.shape) /\ ~BatchAgree(opA.shape, opB.shape))
              => res.err = "BatchMismatch"
        /\ (res.err = "none") <=>
              (InnerAgree(opA.shape, opB.shape) /\ BatchAgree(opA.shape, opB.shape))
        /\ res.err # "none" => AsTensor(res) = NoTensor

\* C10 witness: the inner dimensions agree and a batch axis of size 1 meets
\* one of size 2, and the product was refused on the batch dimensions
C10_Witness ==
    /\ last.op = "matmul"
    /\ rank = 3
    /\ InnerAgree(opA.shape, opB.shape)
    /\ opA.shape[1] = 1
    /\ opB.shape[1] = 2
    /\ res.err = "BatchMismatch"

(***************************************************************************)
(* Properties of the transposition.                                        *)
(***************************************************************************)
\* C11: for a tensor of rank >= 2, transpose2D returns a tensor whose shape is
\* the input shape with its last two entries swapped and whose element at
\* (b..., j, i) is the input element at (b..., i, j), for every in-range
\* input index.
C11_TransposeResult ==
    (last.op = "transpose" /\ rank >= 2) =>
        /\ res.err = "none"
        /\ res.shape = swap_last_two(opA.shape)
        /\ Len(res.data) = Product(res.shape)
        /\ \A I \in IndicesOf(opA.shape) :
              ElementAt(res, swap_last_two(I)) = ElementAt(opA, I)

\* C12: for any rank-2 tensor T, non-square shapes and shapes with an axis of
\* size 1 included, transpose2D(transpose2D(T)) has the shape of T and the
\* same element at every index.
C12_TransposeInvolution ==
    (last.op = "transpose2" /\ rank = 2) =>
        /\ res.err = "none"
        /\ res.shape = opA.shape
        /\ \A I \in IndicesOf(opA.shape) : ElementAt(res, I) = ElementAt(opA, I)

\* C12 witness: a [2,3] tensor holding different values was transposed twice
C12_Witness ==
    /\ last.op = "transpose2"
    /\ rank = 2
    /\ opA.shape = <<2, 3>>
    /\ opA.data = <<0, 1, 0, 1, 1, 0>>
    /\ res.err = "none"

(***************************************************************************)
(* Properties of list assignment, the growing reshape and element writes.  *)
(***************************************************************************)
\* C13: assignment from a flat literal sequence of length L succeeds if and
\* only if L = size(); on success the element at every flat position k is
\* the k-th entry of the sequence and shape() is unchanged; otherwise it
\* fails with SizeMismatch and shape and every element are unchanged.
C13_ListAssignment ==
    (last.op = "assign") =>
        /\ (last.err = "none") <=> (Len(last.arg) = Len(prev.data))
        /\ last.err = "none" =>
              /\ shape = prev.shape
              /\ Len(data) = Len(last.arg)
              /\ \A k \in 1..Len(data) : data[k] = last.arg[k]
        /\ Len(last.arg) # Len(prev.data) =>
              (last.err = "SizeMismatch" /\ Cur = prev)

\* C13 witness: a list of the tensor's size has replaced different elements
C13_Witness ==
    /\ last.op = "assign"
    /\ last.err = "none"
    /\ Len(data) >= 4
    /\ data # prev.data
    /\ \E k \in 1..Len(data) : data[k] # data[1]

RowMajor(I, shp) ==
    LET N == Len(shp)
        RECURSIVE stride(_)
        stride(a) == IF a = N THEN 1 ELSE stride(a + 1) * shp[a + 1]
        RECURSIVE sum(_)
        sum(a) == IF a = 0 THEN 0 ELSE sum(a - 1) + I[a] * stride(a)
    IN  sum(N)

\* C15: for indices in range on every axis the offset of the access operator
\* is below size() and distinct index tuples have distinct offsets, so a
\* write at in-range I changes exactly that element: a read at I returns the
\* written value, a read at every other in-range J returns what it returned
\* before, and shape() is unchanged.
C15_WriteChangesOneElement ==
    (last.op = "write" /\ InRange(last.arg, prev.shape)) =>
        /\ last.err = "none"
        /\ shape = prev.shape
        /\ compute_index(last.arg, shape) < Len(data)
        /\ \A J \in IndicesOf(shape) :
              /\ compute_index(J, shape) < Len(data)
              /\ J # last.arg => compute_index(J, shape) # compute_index(last.arg, shape)
              /\ data[compute_index(J, shape) + 1] =
                    IF J = last.arg THEN last.val
                    ELSE prev.data[compute_index(J, shape) + 1]
        /\ data = [prev.data EXCEPT ![RowMajor(last.arg, shape) + 1] = last.val]

\* C15 witness: a 1 was written at (1,2) of a [2,3] tensor that held a 0
\* there and a 1 elsewhere
C15_Witness ==
    /\ last.op = "write"
    /\ last.err = "none"
    /\ shape = <<2, 3>>
    /\ last.arg = <<1, 2>>
    /\ last.val = 1
    /\ prev.data[6] = 0
    /\ data[6] = 1
    /\ \E k \in 1..5 : data[k] = 1

====
